---- MODULE Spec2Model ----
(***************************************************************************)
(* Qutrit operators of pennylane/ops/qutrit: the non-parametric gates      *)
(* (non_parametric_ops.py) and the state preparations                      *)
(* (state_preparation.py).                                                 *)
(*                                                                         *)
(* Five specifications share the variables:                                *)
(*   Spec        an operator object is constructed and its methods         *)
(*               (matrix, adjoint, pow, subspace, control_wires) are       *)
(*               called;                                                   *)
(*   SpecStatic  the static compute_matrix and compute_eigvals generators  *)
(*               are called on raw arguments;                              *)
(*   SpecSV      a QutritStateVector is constructed and projected;         *)
(*   SpecBS      a QutritBasisState is constructed and projected;          *)
(*   SpecAlias   the caller of Spec keeps the list it passed as subspace   *)
(*               and changes it while the operator is in use.              *)
(***************************************************************************)
EXTENDS Integers, Sequences, FiniteSets, TLC

VARIABLES op, call, result, heap

vars == <<op, call, result, heap>>

(***************************************************************************)
(* Bounds of the exploration.                                              *)
(***************************************************************************)
\* largest integer used as an element of a subspace argument (3 is out of range)
MaxElem == 3
\* longest list passed as a subspace argument; a list longer than two elements
\* is made of 0 and MaxElem only
MaxSubspaceLen == 3
\* largest control value passed to TCNOT
MaxControl == 3
\* exponents passed to pow: integers -MaxExp..MaxExp and halves in between
MaxExp == 3
\* wire labels of the gates are 0..MaxWire
MaxWire == 1
\* wire labels of the state preparations are 0..MaxSVWire
MaxSVWire == 2
\* a state vector is prepared on 1..MaxOpWires wires
MaxOpWires == 2

(***************************************************************************)
(* Exact complex arithmetic.  A number is ((a + b*sqrt(2)) / d) * e^(i*t)   *)
(* with t = ph * (2*pi/72), a, b integers, d > 0, ph in 0..35 (a half turn *)
(* is a sign of the coefficient), gcd(a, b, d) = 1.  Every constant of the *)
(* source (1, -1, 1j, sqrt(2), OMEGA, ZETA, exp(1j*pi/4)) is of this form.  *)
(* A sum of two numbers on different rays has no such form: it is the      *)
(* value Undef (d = 0), which every operation propagates and which equals  *)
(* no number.                                                              *)
(***************************************************************************)
\* angles are multiples of a 72nd of a turn: the source uses eighth roots of
\* unity (1j, exp(1j*pi/4)) and ninth roots (OMEGA, ZETA)
TurnUnits == 8 * 9

HalfTurn == TurnUnits \div 2

Abs(n) == IF n < 0 THEN -n ELSE n

RECURSIVE GCD(_, _)
GCD(m, n) == IF n = 0 THEN m ELSE GCD(n, m % n)

Undef == [a |-> 0, b |-> 0, d |-> 0, ph |-> 0]

Zero == [a |-> 0, b |-> 0, d |-> 1, ph |-> 0]

One == [a |-> 1, b |-> 0, d |-> 1, ph |-> 0]

IsDef(x) == x.d > 0

\* canonical form of ((a + b*sqrt(2)) / d) * e^(i*ph*2*pi/72), ph in 0..71
Num(a, b, d, ph) ==
    IF a = 0 /\ b = 0 THEN Zero
    ELSE LET g == GCD(GCD(Abs(a), Abs(b)), d)
             s == IF ph >= HalfTurn THEN -1 ELSE 1
             p == IF ph >= HalfTurn THEN ph - HalfTurn ELSE ph
         IN [a |-> s * (a \div g), b |-> s * (b \div g), d |-> d \div g, ph |-> p]

Real(n) == Num(n, 0, 1, 0)

CNeg(x) == IF ~IsDef(x) THEN Undef ELSE Num(-x.a, -x.b, x.d, x.ph)

CMul(x, y) ==
    IF ~IsDef(x) \/ ~IsDef(y) THEN Undef
    ELSE Num(x.a * y.a + 2 * x.b * y.b, x.a * y.b + x.b * y.a, x.d * y.d, x.ph + y.ph)

CAdd(x, y) ==
    IF ~IsDef(x) \/ ~IsDef(y) THEN Undef
    ELSE IF x = Zero THEN y
    ELSE IF y = Zero THEN x
    ELSE IF x.ph # y.ph THEN Undef
    ELSE Num(x.a * y.d + y.a * x.d, x.b * y.d + y.b * x.d, x.d * y.d, x.ph)

CConj(x) ==
    IF ~IsDef(x) THEN Undef
    ELSE Num(x.a, x.b, x.d, (TurnUnits - x.ph) % TurnUnits)

\* 1 / x for x # 0:  d * (a - b*sqrt(2)) / (a^2 - 2*b^2), on the conjugate ray
CInv(x) ==
    IF ~IsDef(x) \/ x = Zero THEN Undef
    ELSE LET n == x.a * x.a - 2 * x.b * x.b
             s == IF n < 0 THEN -1 ELSE 1
         IN CConj(Num(s * x.d * x.a, -s * x.d * x.b, Abs(n), x.ph))

CDiv(x, y) == CMul(x, CInv(y))

RECURSIVE CPow(_, _)
\* x ** n for a natural number n
CPow(x, n) == IF n = 0 THEN One ELSE CMul(x, CPow(x, n - 1))

\* np.exp(1j * t) for t = k * (2*pi/72)
Cis(k) == Num(1, 0, 1, k % TurnUnits)

\* np.sqrt(2)
Sqrt2 == Num(0, 1, 1, 0)

\* 1j = exp(1j * pi / 2)
ImagUnit == Cis(TurnUnits \div 4)

\* np.exp(1j * np.pi / 4)
ExpIPi4 == Cis(TurnUnits \div 8)

\* OMEGA = np.exp(2 * np.pi * 1j / 3)
OMEGA == Cis(TurnUnits \div 3)

\* x ** (1 / 3) for a number of modulus 1: the principal cube root, a third of
\* the principal argument (which is ph when the coefficient is positive)
CubeRoot(x) ==
    IF IsDef(x) /\ x.a = 1 /\ x.b = 0 /\ x.d = 1 /\ x.ph % 3 = 0
    THEN Cis(x.ph \div 3) ELSE Undef

\* ZETA = OMEGA ** (1 / 3)
ZETA == CubeRoot(OMEGA)

(***************************************************************************)
(* Matrices: mat[r][c] with r, c in 0..n-1.                                *)
(***************************************************************************)
Idx(n) == 0 .. (n - 1)

RECURSIVE Table(_, _)
\* the function on 0..n with the values F(0), ..., F(n)
Table(F(_), n) == IF n = 0 THEN 0 :> F(0) ELSE Table(F, n - 1) @@ (n :> F(n))

\* the n x n array with the entry E(r, c) in row r and column c
Mat(n, E(_, _)) == Table(LAMBDA r : Table(LAMBDA c : E(r, c), n - 1), n - 1)

\* np.zeros((n, n))
Zeros(n) == Mat(n, LAMBDA r, c : Zero)

\* np.eye(n)
Eye(n) == Mat(n, LAMBDA r, c : IF r = c THEN One ELSE Zero)

\* np.diag([...]) of a sequence of n numbers
Diag(seq) == Mat(Len(seq), LAMBDA r, c : IF r = c THEN seq[r + 1] ELSE Zero)

\* mat[r, c] = v
SetItem(mat, r, c, v) == [mat EXCEPT ![r][c] = v]

Dim(mat) == Cardinality(DOMAIN mat)

\* scalar * mat
Scale(k, mat) == Mat(Dim(mat), LAMBDA r, c : CMul(k, mat[r][c]))

\* mat / scalar
DivideBy(mat, k) == Mat(Dim(mat), LAMBDA r, c : CDiv(mat[r][c], k))

RECURSIVE RowByColumn(_, _, _, _, _)
\* A[r][0] * B[0][c] + ... + A[r][n] * B[n][c]
RowByColumn(A, B, r, c, n) ==
    IF n = 0 THEN CMul(A[r][0], B[0][c])
    ELSE CAdd(RowByColumn(A, B, r, c, n - 1), CMul(A[r][n], B[n][c]))

\* the matrix product A @ B of two square arrays; no product (the empty
\* array) when the shapes differ
MatMul(A, B) ==
    IF Dim(A) # Dim(B) THEN <<>>
    ELSE Mat(Dim(A), LAMBDA r, c : RowByColumn(A, B, r, c, Dim(A) - 1))

\* conjugate transpose
Dagger(A) == Mat(Dim(A), LAMBDA r, c : CConj(A[c][r]))

Transpose(A) == Mat(Dim(A), LAMBDA r, c : A[c][r])

RECURSIVE MatPowNat(_, _)
MatPowNat(A, n) ==
    IF n = 0 THEN Eye(Dim(A)) ELSE IF n = 1 THEN A ELSE MatMul(A, MatPowNat(A, n - 1))

IsUnitary(A) == MatMul(A, Dagger(A)) = Eye(Dim(A))

\* A ** z for an integer z; the inverse of a unitary A is its conjugate transpose
MatPow(A, z) == IF z >= 0 THEN MatPowNat(A, z) ELSE MatPowNat(Dagger(A), -z)

MatDefined(A) == \A r \in DOMAIN A : \A c \in DOMAIN A[r] : IsDef(A[r][c])

(***************************************************************************)
(* Python values passed as the subspace argument.                          *)
(***************************************************************************)
PyNone == [tag |-> "None", v |-> <<>>]

PyInt(n) == [tag |-> "int", v |-> <<n>>]

PyList(s) == [tag |-> "list", v |-> s]

PyTuple(s) == [tag |-> "tuple", v |-> s]

\* the argument was not passed: the parameter takes its default
Omitted == [tag |-> "omitted", v |-> <<>>]

\* an attribute the class does not have
NoAttr == [tag |-> "absent", v |-> <<>>]

\* len(x) is defined
HasLen(x) == x.tag \in {"list", "tuple"}

\* hasattr(x, "__iter__")
HasIter(x) == x.tag \in {"list", "tuple"}

SeqsUpTo(S, n) == UNION {[1 .. k -> S] : k \in 0 .. n}

Elems == 0 .. MaxElem

SubspaceSeqs ==
    SeqsUpTo(Elems, 2) \cup
    {s \in SeqsUpTo({0, MaxElem}, MaxSubspaceLen) : Len(s) > 2}

\* what a caller passes as subspace
SubspaceArgs ==
    {PyList(s) : s \in SubspaceSeqs} \cup {PyInt(n) : n \in {0, 1}} \cup {PyNone, Omitted}

Trits == {0, 1, 2}

\* the valid subspaces, in both listing orders
ValidPairs == {s \in [1 .. 2 -> Trits] : s[1] # s[2]}

RECURSIVE Insert(_, _)
Insert(x, s) ==
    IF s = <<>> THEN <<x>>
    ELSE IF x <= Head(s) THEN <<x>> \o s
    ELSE <<Head(s)>> \o Insert(x, Tail(s))

RECURSIVE Sorted(_)
\* sorted(s)
Sorted(s) == IF s = <<>> THEN <<>> ELSE Insert(Head(s), Sorted(Tail(s)))

(***************************************************************************)
(* Outcomes of a call.                                                     *)
(***************************************************************************)
NoResult == [kind |-> "none", exc |-> "", val |-> <<>>]

\* raise e(msg)
Raise(e, msg) == [kind |-> "raise", exc |-> e, val |-> <<msg>>]

ReturnMatrix(m) == [kind |-> "matrix", exc |-> "", val |-> m]

ReturnOp(o) == [kind |-> "op", exc |-> "", val |-> o]

ReturnValue(v) == [kind |-> "value", exc |-> "", val |-> v]

\* super().pow(z): the generic exponentiation of the operator base is handed z
SuperPow(z) == [kind |-> "pow", exc |-> "", val |-> z]

(***************************************************************************)
(* non_parametric_ops.py: the matrix generators (static compute_matrix).   *)
(* The argument is a Python value; Omitted takes the parameter's default.  *)
(***************************************************************************)
MsgSequence == "The subspace must be a sequence with two unique elements from the set {0, 1, 2}."

MsgRange == "Elements of the subspace must be 0, 1, or 2."

MsgUnique == "Elements of subspace list must be unique."

\* list({0, 1, 2}.difference(set(subspace))).pop() for a valid subspace
UnusedInd(s) == CHOOSE u \in Trits \ {s[1], s[2]} : TRUE

\* the 3x3 literal of TShift.compute_matrix: row r has its 1 in column TShiftRows[r + 1]
TShiftRows == <<2, 0, 1>>

\* TShift.compute_matrix with its literal transposed
TShiftComputeMatrixTransposed ==
    ReturnMatrix(Mat(3, LAMBDA r, c : IF TShiftRows[c + 1] = r THEN One ELSE Zero))

TShiftComputeMatrix ==
    ReturnMatrix(Mat(3, LAMBDA r, c : IF TShiftRows[r + 1] = c THEN One ELSE Zero))

TClockComputeMatrix == ReturnMatrix(Diag(<<One, OMEGA, CPow(OMEGA, 2)>>))

\* the 9x9 literal of TAdd.compute_matrix: row r has its 1 in column TAddRows[r + 1]
TAddRows == <<0, 1, 2, 5, 3, 4, 7, 8, 6>>

\* TAdd.compute_matrix with its literal transposed
TAddComputeMatrixTransposed ==
    ReturnMatrix(Mat(9, LAMBDA r, c : IF TAddRows[c + 1] = r THEN One ELSE Zero))

TAddComputeMatrix ==
    ReturnMatrix(Mat(9, LAMBDA r, c : IF TAddRows[r + 1] = c THEN One ELSE Zero))

\* the 9x9 literal of TSWAP.compute_matrix: row r has its 1 in column TSWAPRows[r + 1]
TSWAPRows == <<0, 3, 6, 1, 4, 7, 2, 5, 8>>

TSWAPComputeMatrix ==
    ReturnMatrix(Mat(9, LAMBDA r, c : IF TSWAPRows[r + 1] = c THEN One ELSE Zero))

\* return np.array([...]): a one-dimensional array of numbers
ReturnArray(seq) == [kind |-> "array", exc |-> "", val |-> seq]

TShiftComputeEigvals == ReturnArray(<<OMEGA, CPow(OMEGA, 2), One>>)

TClockComputeEigvals == ReturnArray(<<One, OMEGA, CPow(OMEGA, 2)>>)

TAddComputeEigvals ==
    ReturnArray(<<OMEGA, CPow(OMEGA, 2), One, OMEGA, CPow(OMEGA, 2), One, One, One, One>>)

\* TSWAP.compute_eigvals with a fourth -1.0 in place of a 1.0
TSWAPComputeEigvalsFourMinus ==
    ReturnArray(<<One, Real(-1), One, Real(-1), One, Real(-1), One, Real(-1), One>>)

TSWAPComputeEigvals ==
    ReturnArray(<<One, Real(-1), One, Real(-1), One, Real(-1), One, One, One>>)

\* the classes that define compute_eigvals
EigvalsFamilies == {"TShift", "TClock", "TAdd", "TSWAP"}

\* the default of the subspace parameter of TX, TY, TZ, TH and TCNOT
DefaultSubspace == PyList(<<0, 1>>)

\* TX.compute_matrix without the line mat[unused_ind, unused_ind] = 1
TXComputeMatrixNoUnused(subspace_arg) ==
    LET subspace == IF subspace_arg = Omitted THEN DefaultSubspace ELSE subspace_arg
    IN IF ~HasLen(subspace) THEN Raise("TypeError", "len")
       ELSE IF Len(subspace.v) # 2 THEN Raise("ValueError", MsgSequence)
       ELSE IF ~(\A k \in 1 .. 2 : subspace.v[k] \in Trits) THEN Raise("ValueError", MsgRange)
       ELSE IF subspace.v[1] = subspace.v[2] THEN Raise("ValueError", MsgUnique)
       ELSE LET s == Sorted(subspace.v)
                m0 == Zeros(3)
                m1 == SetItem(m0, s[1], s[2], One)
                m2 == SetItem(m1, s[2], s[1], One)
            IN ReturnMatrix(m2)

TXComputeMatrix(subspace_arg) ==
    LET subspace == IF subspace_arg = Omitted THEN DefaultSubspace ELSE subspace_arg
    IN IF ~HasLen(subspace) THEN Raise("TypeError", "len")
       ELSE IF Len(subspace.v) # 2 THEN Raise("ValueError", MsgSequence)
       ELSE IF ~(\A k \in 1 .. 2 : subspace.v[k] \in Trits) THEN Raise("ValueError", MsgRange)
       ELSE IF subspace.v[1] = subspace.v[2] THEN Raise("ValueError", MsgUnique)
       ELSE LET s == Sorted(subspace.v)
                unused_ind == UnusedInd(s)
                m0 == Zeros(3)
                m1 == SetItem(m0, s[1], s[2], One)
                m2 == SetItem(m1, s[2], s[1], One)
                m3 == SetItem(m2, unused_ind, unused_ind, One)
            IN ReturnMatrix(m3)

\* TY.compute_matrix without the line subspace = tuple(sorted(subspace))
TYComputeMatrixUnsorted(subspace_arg) ==
    LET subspace == IF subspace_arg = Omitted THEN DefaultSubspace ELSE subspace_arg
    IN IF ~HasLen(subspace) THEN Raise("TypeError", "len")
       ELSE IF Len(subspace.v) # 2 THEN Raise("ValueError", MsgSequence)
       ELSE IF ~(\A k \in 1 .. 2 : subspace.v[k] \in Trits) THEN Raise("ValueError", MsgRange)
       ELSE IF subspace.v[1] = subspace.v[2] THEN Raise("ValueError", MsgUnique)
       ELSE LET s == subspace.v
                unused_ind == UnusedInd(s)
                m0 == Zeros(3)
                m1 == SetItem(m0, s[1], s[2], CNeg(ImagUnit))
                m2 == SetItem(m1, s[2], s[1], ImagUnit)
                m3 == SetItem(m2, unused_ind, unused_ind, One)
            IN ReturnMatrix(m3)

TYComputeMatrix(subspace_arg) ==
    LET subspace == IF subspace_arg = Omitted THEN DefaultSubspace ELSE subspace_arg
    IN IF ~HasLen(subspace) THEN Raise("TypeError", "len")
       ELSE IF Len(subspace.v) # 2 THEN Raise("ValueError", MsgSequence)
       ELSE IF ~(\A k \in 1 .. 2 : subspace.v[k] \in Trits) THEN Raise("ValueError", MsgRange)
       ELSE IF subspace.v[1] = subspace.v[2] THEN Raise("ValueError", MsgUnique)
       ELSE LET s == Sorted(subspace.v)
                unused_ind == UnusedInd(s)
                m0 == Zeros(3)
                m1 == SetItem(m0, s[1], s[2], CNeg(ImagUnit))
                m2 == SetItem(m1, s[2], s[1], ImagUnit)
                m3 == SetItem(m2, unused_ind, unused_ind, One)
            IN ReturnMatrix(m3)

TZComputeMatrix(subspace_arg) ==
    LET subspace == IF subspace_arg = Omitted THEN DefaultSubspace ELSE subspace_arg
    IN IF ~HasLen(subspace) THEN Raise("TypeError", "len")
       ELSE IF Len(subspace.v) # 2 THEN Raise("ValueError", MsgSequence)
       ELSE IF ~(\A k \in 1 .. 2 : subspace.v[k] \in Trits) THEN Raise("ValueError", MsgRange)
       ELSE IF subspace.v[1] = subspace.v[2] THEN Raise("ValueError", MsgUnique)
       ELSE LET s == subspace.v
                m0 == Eye(3)
                m1 == SetItem(m0, s[2], s[2], Real(-1))
            IN ReturnMatrix(m1)

\* TH.compute_matrix without the line mat[subspace[1], subspace[1]] = -1
THComputeMatrixNoMinus(subspace_arg) ==
    LET subspace == IF subspace_arg = Omitted THEN DefaultSubspace ELSE subspace_arg
    IN IF ~HasLen(subspace) THEN Raise("TypeError", "len")
       ELSE IF Len(subspace.v) # 2 THEN Raise("ValueError", MsgSequence)
       ELSE IF ~(\A k \in 1 .. 2 : subspace.v[k] \in Trits) THEN Raise("ValueError", MsgRange)
       ELSE IF subspace.v[1] = subspace.v[2] THEN Raise("ValueError", MsgUnique)
       ELSE LET s == Sorted(subspace.v)
                unused_ind == UnusedInd(s)
                m0 == Eye(3)
                m1 == SetItem(m0, unused_ind, unused_ind, Sqrt2)
                m2 == SetItem(m1, s[1], s[2], One)
                m3 == SetItem(m2, s[2], s[1], One)
            IN ReturnMatrix(DivideBy(m3, Sqrt2))

THComputeMatrix(subspace_arg) ==
    LET subspace == IF subspace_arg = Omitted THEN DefaultSubspace ELSE subspace_arg
    IN IF ~HasLen(subspace) THEN Raise("TypeError", "len")
       ELSE IF Len(subspace.v) # 2 THEN Raise("ValueError", MsgSequence)
       ELSE IF ~(\A k \in 1 .. 2 : subspace.v[k] \in Trits) THEN Raise("ValueError", MsgRange)
       ELSE IF subspace.v[1] = subspace.v[2] THEN Raise("ValueError", MsgUnique)
       ELSE LET s == Sorted(subspace.v)
                unused_ind == UnusedInd(s)
                m0 == Eye(3)
                m1 == SetItem(m0, unused_ind, unused_ind, Sqrt2)
                m2 == SetItem(m1, s[1], s[2], One)
                m3 == SetItem(m2, s[2], s[1], One)
                m4 == SetItem(m3, s[2], s[2], Real(-1))
            IN ReturnMatrix(DivideBy(m4, Sqrt2))

\* mat[lo:lo+3, lo:lo+3] = block
SetBlock(mat, lo, block) ==
    Mat(Dim(mat), LAMBDA r, c :
        IF r \in lo .. (lo + 2) /\ c \in lo .. (lo + 2) THEN block[r - lo][c - lo] ELSE mat[r][c])

\* the default of the control_value parameter of TCNOT
DefaultControlValue == 2

\* TCNOT.compute_matrix without the branch elif control_value == 1
TCNOTComputeMatrixNoMiddle(subspace_arg, control_arg) ==
    LET subspace == IF subspace_arg = Omitted THEN DefaultSubspace ELSE subspace_arg
        control_value == IF control_arg = Omitted THEN DefaultControlValue ELSE control_arg.v[1]
        op_mat == TXComputeMatrix(subspace)
    IN IF op_mat.kind = "raise" THEN op_mat
       ELSE LET mat == Eye(9)
            IN IF control_value = 0 THEN ReturnMatrix(SetBlock(mat, 0, op_mat.val))
               ELSE ReturnMatrix(SetBlock(mat, 6, op_mat.val))

\* TCNOT.compute_matrix with a check that the control value is 0, 1 or 2
TCNOTComputeMatrixValidated(subspace_arg, control_arg) ==
    LET subspace == IF subspace_arg = Omitted THEN DefaultSubspace ELSE subspace_arg
        control_value == IF control_arg = Omitted THEN DefaultControlValue ELSE control_arg.v[1]
        op_mat == TXComputeMatrix(subspace)
    IN IF control_value \notin {0, 1, 2} THEN Raise("ValueError", "control value")
       ELSE IF op_mat.kind = "raise" THEN op_mat
       ELSE LET mat == Eye(9)
            IN IF control_value = 0 THEN ReturnMatrix(SetBlock(mat, 0, op_mat.val))
               ELSE IF control_value = 1 THEN ReturnMatrix(SetBlock(mat, 3, op_mat.val))
               ELSE ReturnMatrix(SetBlock(mat, 6, op_mat.val))

TCNOTComputeMatrix(subspace_arg, control_arg) ==
    LET subspace == IF subspace_arg = Omitted THEN DefaultSubspace ELSE subspace_arg
        control_value == IF control_arg = Omitted THEN DefaultControlValue ELSE control_arg.v[1]
        op_mat == TXComputeMatrix(subspace)
    IN IF op_mat.kind = "raise" THEN op_mat
       ELSE LET mat == Eye(9)
            IN IF control_value = 0 THEN ReturnMatrix(SetBlock(mat, 0, op_mat.val))
               ELSE IF control_value = 1 THEN ReturnMatrix(SetBlock(mat, 3, op_mat.val))
               ELSE ReturnMatrix(SetBlock(mat, 6, op_mat.val))

\* subspace[k] of the phase gates, which do not check the subspace: the
\* error of indexing something that is no sequence or of an index out of range
IndexError(subspace, k) ==
    IF ~HasLen(subspace) THEN Raise("TypeError", "subscript")
    ELSE IF k + 1 > Len(subspace.v) THEN Raise("IndexError", "index out of range")
    ELSE IF subspace.v[k + 1] \notin Idx(3) THEN Raise("IndexError", "index out of bounds")
    ELSE NoResult

TSComputeMatrix(subspace_arg) ==
    LET subspace == IF subspace_arg = Omitted THEN PyNone ELSE subspace_arg
    IN IF subspace = PyNone
       THEN ReturnMatrix(Scale(CPow(ZETA, 8), Diag(<<One, One, OMEGA>>)))
       ELSE IF IndexError(subspace, 0).kind = "raise" THEN IndexError(subspace, 0)
       ELSE IF IndexError(subspace, 1).kind = "raise" THEN IndexError(subspace, 1)
       ELSE LET s == subspace.v
                m0 == Eye(3)
                m1 == SetItem(m0, s[1], s[1], One)
                m2 == SetItem(m1, s[2], s[2], ImagUnit)
            IN ReturnMatrix(m2)

TTComputeMatrix(subspace_arg) ==
    LET subspace == IF subspace_arg = Omitted THEN PyNone ELSE subspace_arg
    IN IF subspace = PyNone
       THEN ReturnMatrix(Diag(<<One, ZETA, CPow(ZETA, 8)>>))
       ELSE IF IndexError(subspace, 0).kind = "raise" THEN IndexError(subspace, 0)
       ELSE IF IndexError(subspace, 1).kind = "raise" THEN IndexError(subspace, 1)
       ELSE LET s == subspace.v
                m0 == Eye(3)
                m1 == SetItem(m0, s[1], s[1], One)
                m2 == SetItem(m1, s[2], s[2], ExpIPi4)
            IN ReturnMatrix(m2)

(***************************************************************************)
(* non_parametric_ops.py: the operator objects.  An object is a record of  *)
(* its attributes: _subspace and _control_value as __init__ stores them,   *)
(* hyper the _hyperparameters dictionary filled at construction.           *)
(***************************************************************************)
NoOp == [family |-> "none", wires |-> <<>>, _subspace |-> NoAttr,
         _control_value |-> NoAttr, hyper |-> [subspace |-> NoAttr, control_value |-> NoAttr]]

\* Operation.__init__(wires=wires) of a class that defines no __init__
NewOp(family, wires) == [NoOp EXCEPT !.family = family, !.wires = wires]

TShiftInit(wires) == ReturnOp(NewOp("TShift", wires))

TClockInit(wires) == ReturnOp(NewOp("TClock", wires))

TAddInit(wires) == ReturnOp(NewOp("TAdd", wires))

TSWAPInit(wires) == ReturnOp(NewOp("TSWAP", wires))

\* the subspace property: tuple(sorted(self._subspace))
TCNOTSubspace(self) == PyTuple(Sorted(self._subspace.v))

TXSubspace(self) == PyTuple(Sorted(self._subspace.v))

TYSubspace(self) == PyTuple(Sorted(self._subspace.v))

\* the subspace property of TZ sorting like that of TX
TZSubspaceSorted(self) == PyTuple(Sorted(self._subspace.v))

\* the subspace property of TZ: tuple(self._subspace)
TZSubspace(self) == PyTuple(self._subspace.v)

THSubspace(self) == PyTuple(Sorted(self._subspace.v))

TSSubspace(self) == PyTuple(Sorted(self._subspace.v))

TTSubspace(self) == PyTuple(Sorted(self._subspace.v))

\* the control_value property: int(self._control_value)
TCNOTControlValue(self) == PyInt(self._control_value.v[1])

TCNOTInit(wires, subspace_arg, control_arg) ==
    LET subspace == IF subspace_arg = Omitted THEN DefaultSubspace ELSE subspace_arg
        control_value == IF control_arg = Omitted THEN PyInt(DefaultControlValue) ELSE control_arg
    IN IF ~HasIter(subspace) THEN Raise("ValueError", MsgSequence)
       ELSE LET self == [NewOp("TCNOT", wires) EXCEPT
                            !._subspace = subspace, !._control_value = control_value]
            IN ReturnOp([self EXCEPT !.hyper = [subspace |-> TCNOTSubspace(self),
                                                control_value |-> TCNOTControlValue(self)]])

TXInit(wires, subspace_arg) ==
    LET subspace == IF subspace_arg = Omitted THEN DefaultSubspace ELSE subspace_arg
    IN IF ~HasIter(subspace) THEN Raise("ValueError", MsgSequence)
       ELSE LET self == [NewOp("TX", wires) EXCEPT !._subspace = subspace]
            IN ReturnOp([self EXCEPT !.hyper.subspace = TXSubspace(self)])

TYInit(wires, subspace_arg) ==
    LET subspace == IF subspace_arg = Omitted THEN DefaultSubspace ELSE subspace_arg
    IN IF ~HasIter(subspace) THEN Raise("ValueError", MsgSequence)
       ELSE LET self == [NewOp("TY", wires) EXCEPT !._subspace = subspace]
            IN ReturnOp([self EXCEPT !.hyper.subspace = TYSubspace(self)])

TZInit(wires, subspace_arg) ==
    LET subspace == IF subspace_arg = Omitted THEN DefaultSubspace ELSE subspace_arg
    IN IF ~HasIter(subspace) THEN Raise("ValueError", MsgSequence)
       ELSE LET self == [NewOp("TZ", wires) EXCEPT !._subspace = subspace]
            IN ReturnOp([self EXCEPT !.hyper.subspace = TZSubspace(self)])

THInit(wires, subspace_arg) ==
    LET subspace == IF subspace_arg = Omitted THEN DefaultSubspace ELSE subspace_arg
    IN IF ~HasIter(subspace) THEN Raise("ValueError", MsgSequence)
       ELSE LET self == [NewOp("TH", wires) EXCEPT !._subspace = subspace]
            IN ReturnOp([self EXCEPT !.hyper.subspace = THSubspace(self)])

TSInit(wires, subspace_arg) ==
    LET subspace == IF subspace_arg = Omitted THEN PyNone ELSE subspace_arg
    IN IF ~HasIter(subspace) THEN Raise("ValueError", MsgSequence)
       ELSE LET self == [NewOp("TS", wires) EXCEPT !._subspace = subspace]
            IN ReturnOp([self EXCEPT !.hyper.subspace = TSSubspace(self)])

TTInit(wires, subspace_arg) ==
    LET subspace == IF subspace_arg = Omitted THEN PyNone ELSE subspace_arg
    IN IF ~HasIter(subspace) THEN Raise("ValueError", MsgSequence)
       ELSE LET self == [NewOp("TT", wires) EXCEPT !._subspace = subspace]
            IN ReturnOp([self EXCEPT !.hyper.subspace = TTSubspace(self)])

\* the constructor call Family(wires, subspace=..., control_value=...)
InitOp(family, wires, subspace_arg, control_arg) ==
    CASE family = "TShift" -> TShiftInit(wires)
      [] family = "TClock" -> TClockInit(wires)
      [] family = "TAdd" -> TAddInit(wires)
      [] family = "TSWAP" -> TSWAPInit(wires)
      [] family = "TCNOT" -> TCNOTInit(wires, subspace_arg, control_arg)
      [] family = "TX" -> TXInit(wires, subspace_arg)
      [] family = "TY" -> TYInit(wires, subspace_arg)
      [] family = "TZ" -> TZInit(wires, subspace_arg)
      [] family = "TH" -> THInit(wires, subspace_arg)
      [] family = "TS" -> TSInit(wires, subspace_arg)
      [] family = "TT" -> TTInit(wires, subspace_arg)

\* self.subspace
SubspaceOf(self) ==
    CASE self.family = "TCNOT" -> TCNOTSubspace(self)
      [] self.family = "TX" -> TXSubspace(self)
      [] self.family = "TY" -> TYSubspace(self)
      [] self.family = "TZ" -> TZSubspace(self)
      [] self.family = "TH" -> THSubspace(self)
      [] self.family = "TS" -> TSSubspace(self)
      [] self.family = "TT" -> TTSubspace(self)

\* self.matrix(): compute_matrix(**self.hyperparameters)
MatrixOf(self) ==
    CASE self.family = "TShift" -> TShiftComputeMatrix
      [] self.family = "TClock" -> TClockComputeMatrix
      [] self.family = "TAdd" -> TAddComputeMatrix
      [] self.family = "TSWAP" -> TSWAPComputeMatrix
      [] self.family = "TCNOT" ->
            TCNOTComputeMatrix(self.hyper.subspace, self.hyper.control_value)
      [] self.family = "TX" -> TXComputeMatrix(self.hyper.subspace)
      [] self.family = "TY" -> TYComputeMatrix(self.hyper.subspace)
      [] self.family = "TZ" -> TZComputeMatrix(self.hyper.subspace)
      [] self.family = "TH" -> THComputeMatrix(self.hyper.subspace)
      [] self.family = "TS" -> TSComputeMatrix(self.hyper.subspace)
      [] self.family = "TT" -> TTComputeMatrix(self.hyper.subspace)

\* TSWAP.adjoint handing the wires on in reverse order
TSWAPAdjointReversed(self) == TSWAPInit(<<self.wires[2], self.wires[1]>>)

TSWAPAdjoint(self) == TSWAPInit(self.wires)

\* TCNOT.adjoint without the argument control_value=self.control_value
TCNOTAdjointDefaultControl(self) == TCNOTInit(self.wires, TCNOTSubspace(self), Omitted)

TCNOTAdjoint(self) == TCNOTInit(self.wires, TCNOTSubspace(self), TCNOTControlValue(self))

TXAdjoint(self) == TXInit(self.wires, TXSubspace(self))

TYAdjoint(self) == TYInit(self.wires, TYSubspace(self))

TZAdjoint(self) == TZInit(self.wires, TZSubspace(self))

THAdjoint(self) == THInit(self.wires, THSubspace(self))

\* TT.adjoint written like TX.adjoint
TTAdjointDefined(self) == TTInit(self.wires, TTSubspace(self))

TSAdjoint(self) == Raise("AdjointUndefinedError", "")

TTAdjoint(self) == Raise("AdjointUndefinedError", "")

\* the classes that define adjoint
AdjointFamilies == {"TSWAP", "TCNOT", "TX", "TY", "TZ", "TH", "TS", "TT"}

\* self.adjoint()
AdjointOf(self) ==
    CASE self.family = "TSWAP" -> TSWAPAdjoint(self)
      [] self.family = "TCNOT" -> TCNOTAdjoint(self)
      [] self.family = "TX" -> TXAdjoint(self)
      [] self.family = "TY" -> TYAdjoint(self)
      [] self.family = "TZ" -> TZAdjoint(self)
      [] self.family = "TH" -> THAdjoint(self)
      [] self.family = "TS" -> TSAdjoint(self)
      [] self.family = "TT" -> TTAdjoint(self)

(***************************************************************************)
(* pow.  An exponent is a Python int (den = 1) or a float num / den.       *)
(***************************************************************************)
PyIntExp(n) == [type |-> "int", num |-> n, den |-> 1]

PyFloatExp(n, d) == [type |-> "float", num |-> n, den |-> d]

\* isinstance(z, int)
IsInstanceInt(z) == z.type = "int"

\* z % p of Python, for p > 0: the remainder has the sign of p, and a float
\* stays a float
PyMod(z, p) == [z EXCEPT !.num = z.num % (p * z.den)]

TShiftPow(z) == SuperPow(PyMod(z, 3))

\* TClock.pow reducing modulo 2, the period of the subspace gates
TClockPowMod2(z) == SuperPow(PyMod(z, 2))

TClockPow(z) == SuperPow(PyMod(z, 3))

TAddPow(z) == SuperPow(PyMod(z, 3))

TSWAPPow(z) == SuperPow(PyMod(z, 2))

TCNOTPow(z) == IF ~IsInstanceInt(z) THEN SuperPow(z) ELSE SuperPow(PyMod(z, 2))

\* TX.pow without the isinstance check, like TShift.pow
TXPowReducesAll(z) == SuperPow(PyMod(z, 2))

TXPow(z) == IF ~IsInstanceInt(z) THEN SuperPow(z) ELSE SuperPow(PyMod(z, 2))

TYPow(z) == IF ~IsInstanceInt(z) THEN SuperPow(z) ELSE SuperPow(PyMod(z, 2))

TZPow(z) == IF ~IsInstanceInt(z) THEN SuperPow(z) ELSE SuperPow(PyMod(z, 2))

THPow(z) == IF ~IsInstanceInt(z) THEN SuperPow(z) ELSE SuperPow(PyMod(z, 2))

\* Wires(label): the wires object holding the one label
PyWires(seq) == [tag |-> "Wires", v |-> seq]

\* the control_wires property: Wires(self.wires[0])
TAddControlWires(self) == PyWires(<<self.wires[1]>>)

\* the control_wires property of TCNOT taking the last wire
TCNOTControlWiresLast(self) == PyWires(<<self.wires[Len(self.wires)]>>)

TCNOTControlWires(self) == PyWires(<<self.wires[1]>>)

\* the classes that define control_wires
ControlWiresFamilies == {"TAdd", "TCNOT"}

\* self.control_wires
ControlWiresOf(self) ==
    CASE self.family = "TAdd" -> TAddControlWires(self)
      [] self.family = "TCNOT" -> TCNOTControlWires(self)

\* the classes that define pow
PowFamilies == {"TShift", "TClock", "TAdd", "TSWAP", "TCNOT", "TX", "TY", "TZ", "TH"}

\* self.pow(z)
PowOf(self, z) ==
    CASE self.family = "TShift" -> TShiftPow(z)
      [] self.family = "TClock" -> TClockPow(z)
      [] self.family = "TAdd" -> TAddPow(z)
      [] self.family = "TSWAP" -> TSWAPPow(z)
      [] self.family = "TCNOT" -> TCNOTPow(z)
      [] self.family = "TX" -> TXPow(z)
      [] self.family = "TY" -> TYPow(z)
      [] self.family = "TZ" -> TZPow(z)
      [] self.family = "TH" -> THPow(z)

(***************************************************************************)
(* The caller: what is passed to the constructors and methods.             *)
(***************************************************************************)
SubspaceFamilies == {"TCNOT", "TX", "TY", "TZ", "TH", "TS", "TT"}

Families == {"TShift", "TClock", "TAdd", "TSWAP"} \cup SubspaceFamilies

\* num_wires of the class
NumWires(family) == IF family \in {"TAdd", "TSWAP", "TCNOT"} THEN 2 ELSE 1

WireLabels == 0 .. MaxWire

\* the duplicate-free wire sequences of length n
WireSeqs(n) == {w \in [1 .. n -> WireLabels] : \A i, j \in 1 .. n : i # j => w[i] # w[j]}

SubspaceArgsOf(family) == IF family \in SubspaceFamilies THEN SubspaceArgs ELSE {Omitted}

ControlArgsOf(family) ==
    IF family = "TCNOT" THEN {PyInt(n) : n \in (-1) .. MaxControl} \cup {Omitted} ELSE {Omitted}

Exponents ==
    {PyIntExp(n) : n \in (-MaxExp) .. MaxExp} \cup
    {PyFloatExp(n, 2) : n \in (-2 * MaxExp) .. (2 * MaxExp)}

Call(name, family, args) == [name |-> name, family |-> family, args |-> args]

\* nothing has been called: the caller starts with a constructor
NoCall == Call("none", "none", <<>>)

\* the list objects that outlive a call: the list [0, 1] that is the default of
\* the subspace parameter, created once when the function is defined, and the
\* list that the caller passed as subspace and still holds (NoAttr: none)
NoHeap == [default |-> DefaultSubspace.v, passed |-> NoAttr]

Init ==
    /\ op = NoOp
    /\ call = NoCall
    /\ result = NoResult
    /\ heap = NoHeap

\* x = Family(wires, subspace=..., control_value=...)
Construct ==
    /\ call = NoCall
    /\ \E family \in Families :
       \E wires \in WireSeqs(NumWires(family)) :
       \E subspace_arg \in SubspaceArgsOf(family) :
       \E control_arg \in ControlArgsOf(family) :
          LET out == InitOp(family, wires, subspace_arg, control_arg)
          IN /\ call' = Call("__init__", family, <<wires, subspace_arg, control_arg>>)
             /\ result' = out
             /\ op' = IF out.kind = "op" THEN out.val ELSE op
    /\ UNCHANGED heap

\* x.matrix()
CallMatrix ==
    /\ op # NoOp
    /\ call' = Call("matrix", op.family, <<>>)
    /\ result' = MatrixOf(op)
    /\ UNCHANGED <<op, heap>>

\* x.subspace
CallSubspace ==
    /\ op.family \in SubspaceFamilies
    /\ call' = Call("subspace", op.family, <<>>)
    /\ result' = ReturnValue(SubspaceOf(op))
    /\ UNCHANGED <<op, heap>>

\* x.adjoint()
CallAdjoint ==
    /\ op.family \in AdjointFamilies
    /\ call' = Call("adjoint", op.family, <<>>)
    /\ result' = AdjointOf(op)
    /\ UNCHANGED <<op, heap>>

\* x.pow(z)
CallPow ==
    /\ op.family \in PowFamilies
    /\ \E z \in Exponents :
          /\ call' = Call("pow", op.family, <<z>>)
          /\ result' = PowOf(op, z)
    /\ UNCHANGED <<op, heap>>

\* x.control_wires
CallControlWires ==
    /\ op.family \in ControlWiresFamilies
    /\ call' = Call("control_wires", op.family, <<>>)
    /\ result' = ReturnValue(ControlWiresOf(op))
    /\ UNCHANGED <<op, heap>>

\* x = x.adjoint(): the caller goes on with the operator adjoint returned
Rebind ==
    /\ call.name = "adjoint"
    /\ result.kind = "op"
    /\ op' = result.val
    /\ call' = Call("rebind", op.family, <<>>)
    /\ result' = NoResult
    /\ UNCHANGED heap

\* the caller drops the operator
Discard ==
    /\ call # NoCall
    /\ op' = NoOp
    /\ call' = NoCall
    /\ result' = NoResult
    /\ UNCHANGED heap

Next ==
    \/ Construct
    \/ CallMatrix
    \/ CallSubspace
    \/ CallAdjoint
    \/ CallPow
    \/ CallControlWires
    \/ Rebind
    \/ Discard

Spec == Init /\ [][Next]_vars

\* Family.compute_matrix(subspace=..., control_value=...), the static generator
StaticMatrix(family, subspace_arg, control_arg) ==
    CASE family = "TShift" -> TShiftComputeMatrix
      [] family = "TClock" -> TClockComputeMatrix
      [] family = "TAdd" -> TAddComputeMatrix
      [] family = "TSWAP" -> TSWAPComputeMatrix
      [] family = "TCNOT" -> TCNOTComputeMatrix(subspace_arg, control_arg)
      [] family = "TX" -> TXComputeMatrix(subspace_arg)
      [] family = "TY" -> TYComputeMatrix(subspace_arg)
      [] family = "TZ" -> TZComputeMatrix(subspace_arg)
      [] family = "TH" -> THComputeMatrix(subspace_arg)
      [] family = "TS" -> TSComputeMatrix(subspace_arg)
      [] family = "TT" -> TTComputeMatrix(subspace_arg)

CallComputeMatrix ==
    /\ call = NoCall
    /\ \E family \in Families :
       \E subspace_arg \in SubspaceArgsOf(family) :
       \E control_arg \in ControlArgsOf(family) :
          /\ call' = Call("compute_matrix", family, <<subspace_arg, control_arg>>)
          /\ result' = StaticMatrix(family, subspace_arg, control_arg)
    /\ UNCHANGED <<op, heap>>

\* Family.compute_eigvals(), the static method of the classes that define it
StaticEigvals(family) ==
    CASE family = "TShift" -> TShiftComputeEigvals
      [] family = "TClock" -> TClockComputeEigvals
      [] family = "TAdd" -> TAddComputeEigvals
      [] family = "TSWAP" -> TSWAPComputeEigvals

CallComputeEigvals ==
    /\ call = NoCall
    /\ \E family \in EigvalsFamilies :
          /\ call' = Call("compute_eigvals", family, <<>>)
          /\ result' = StaticEigvals(family)
    /\ UNCHANGED <<op, heap>>

NextStatic ==
    \/ CallComputeMatrix
    \/ CallComputeEigvals
    \/ Discard

SpecStatic == Init /\ [][NextStatic]_vars

(***************************************************************************)
(* Claims on the operator objects (specification Spec).                    *)
(***************************************************************************)
IsValueError(r) == r.kind = "raise" /\ r.exc = "ValueError"

\* C1: for every subspace-taking gate family, the subspaces [0,0], [0,3] and a
\* single integer are rejected with a ValueError: the constructor called with
\* an integer raises it, and the matrix of an operator built with [0,0] or
\* [0,3] raises it instead of returning a matrix.
C1_InvalidSubspaceRejected ==
    /\ (call.name = "__init__" /\ call.family \in SubspaceFamilies /\ call.args[2].tag = "int")
          => IsValueError(result)
    /\ (call.name = "__init__" /\ call.family \in SubspaceFamilies
            /\ call.args[2] \in {PyList(<<0, 0>>), PyList(<<0, 3>>)})
          => (IsValueError(result) \/ result.kind = "op")
    /\ (call.name = "matrix" /\ op.family \in SubspaceFamilies
            /\ op._subspace \in {PyList(<<0, 0>>), PyList(<<0, 3>>)})
          => IsValueError(result)

\* C2: TS and TT are constructed from wires alone, and the matrix of such an
\* operator is ZETA^8 * diag(1, 1, OMEGA) for TS and diag(1, ZETA, ZETA^8) for TT.
C2_PhaseGateFromWiresAlone ==
    /\ (call.name = "__init__" /\ call.family \in {"TS", "TT"} /\ call.args[2] = Omitted)
          => result.kind = "op"
    /\ (call.name = "matrix" /\ op.family = "TS" /\ op._subspace = PyNone)
          => result = ReturnMatrix(Diag(<<Cis(64), Cis(64), Cis(64 + 24)>>))
    /\ (call.name = "matrix" /\ op.family = "TT" /\ op._subspace = PyNone)
          => result = ReturnMatrix(Diag(<<One, Cis(8), Cis(64)>>))

\* the diagonal matrix of a phase gate on the subspace (a, b): phase at b, 1 elsewhere
PhaseAt(b, phase) ==
    Mat(3, LAMBDA r, c : IF r # c THEN Zero ELSE IF r = b THEN phase ELSE One)

\* C4: a phase gate TS or TT built with the subspace (a, b) keeps the order of
\* the subspace: its subspace is (a, b) and its matrix has the phase (i for TS,
\* e^{i*pi/4} for TT) at the second listed element b, and 1 at a and at the
\* third diagonal entry, for both listing orders.
C4_PhaseGateKeepsOrder ==
    (op.family \in {"TS", "TT"} /\ op._subspace.tag = "list" /\ op._subspace.v \in ValidPairs) =>
        /\ call.name = "subspace" => result = ReturnValue(PyTuple(op._subspace.v))
        /\ call.name = "matrix" =>
              result = ReturnMatrix(PhaseAt(op._subspace.v[2],
                                            IF op.family = "TS" THEN Cis(18) ELSE Cis(9)))

\* C5 as stated: a non-integer exponent passed to pow of any gate is handed
\* unchanged to the generic exponentiation.
C5_NonIntegerBypassesAll ==
    (call.name = "pow" /\ call.args[1].type = "float") => result = SuperPow(call.args[1])

\* r is z reduced modulo p: of the same type, in [0, p), and z - r a multiple of p
ReducedMod(r, z, p) ==
    /\ r.type = z.type
    /\ r.den = z.den
    /\ 0 <= r.num /\ r.num < p * r.den
    /\ (z.num - r.num) % (p * z.den) = 0

\* C5 (amended): a non-integer exponent passed to pow of TX, TY, TZ, TH or TCNOT
\* is handed unchanged to the generic exponentiation; passed to pow of TShift,
\* TClock, TAdd (period 3) or TSWAP (period 2) it is reduced modulo the period
\* like an integer, and the remainder is handed on.
C5_NonIntegerBypass ==
    (call.name = "pow" /\ call.args[1].type = "float") =>
        /\ result.kind = "pow"
        /\ call.family \in {"TX", "TY", "TZ", "TH", "TCNOT"} => result.val = call.args[1]
        /\ call.family \in {"TShift", "TClock", "TAdd"} => ReducedMod(result.val, call.args[1], 3)
        /\ call.family = "TSWAP" => ReducedMod(result.val, call.args[1], 2)

\* C5 witness: pow was called with 2.5 on a TX (handed on as 2.5) ...
C5_Witness ==
    /\ call.name = "pow" /\ call.family = "TX"
    /\ call.args[1] = PyFloatExp(5, 2)
    /\ result = SuperPow(PyFloatExp(5, 2))

\* ... and C5's counterexample case: pow called with -0.5 on a TShift hands on 2.5
C5_WitnessReduced ==
    /\ call.name = "pow" /\ call.family = "TShift"
    /\ call.args[1] = PyFloatExp(-1, 2)
    /\ result = SuperPow(PyFloatExp(5, 2))

\* the period the spec gives each gate
PeriodOf(family) == IF family \in {"TShift", "TClock"} THEN 3 ELSE 2

IsMatrix(r) == r.kind = "matrix"

\* C6: for every integer exponent z, pow(z) hands z modulo the gate's period to
\* the generic exponentiation (period 3 for TShift and TClock, 2 for TSWAP, TX,
\* TY, TZ, TH and TCNOT); the reduced exponent is in 0..period-1, the gate's
\* matrix raised to it equals the matrix raised to z, and the period is the
\* smallest positive power of the matrix that is the identity.
C6_IntegerPowReduced ==
    (call.name = "pow" /\ call.args[1].type = "int" /\ call.family # "TAdd") =>
        LET z == call.args[1].num
            p == PeriodOf(call.family)
            m == MatrixOf(op)
        IN /\ result.kind = "pow"
           /\ result.val.type = "int"
           /\ result.val.num \in 0 .. (p - 1)
           /\ (z - result.val.num) % p = 0
           /\ IsMatrix(m) =>
                 /\ MatDefined(m.val)
                 /\ IsUnitary(m.val)
                 /\ MatPow(m.val, result.val.num) = MatPow(m.val, z)
                 /\ MatPowNat(m.val, p) = Eye(Dim(m.val))
                 /\ \A k \in 1 .. (p - 1) : MatPowNat(m.val, k) # Eye(Dim(m.val))

\* C6 witness: a negative exponent on a valid TY and an exponent above the
\* period on a TClock were reduced
C6_Witness ==
    /\ call.name = "pow" /\ call.family = "TY"
    /\ IsMatrix(MatrixOf(op))
    /\ call.args[1] = PyIntExp(-3)
    /\ result = SuperPow(PyIntExp(1))

\* C9: the matrix of a TZ built with the valid subspace (a, b) is the identity
\* with a single -1 at the diagonal position of the second listed element b;
\* the subspace is not sorted, so (a, b) and (b, a) give different matrices,
\* and the subspace property returns the elements in the order given.
C9_TZSecondElement ==
    (op.family = "TZ" /\ op._subspace.v \in ValidPairs) =>
        LET a == op._subspace.v[1]
            b == op._subspace.v[2]
        IN /\ call.name = "subspace" => result = ReturnValue(PyTuple(<<a, b>>))
           /\ call.name = "matrix" =>
                 /\ IsMatrix(result)
                 /\ \A r, c \in Idx(3) :
                       result.val[r][c] = IF r # c THEN Zero ELSE IF r = b THEN Real(-1) ELSE One
                 /\ result # TZComputeMatrix(PyTuple(<<b, a>>))

\* C9 witness: the matrix of a TZ built with the subspace listed as [1, 0]
C9_Witness ==
    /\ op.family = "TZ" /\ op._subspace = PyList(<<1, 0>>)
    /\ call.name = "matrix"
    /\ IsMatrix(result)
    /\ result.val[0][0] = Real(-1)

(***************************************************************************)
(* Claims on the static matrix generators (specification SpecStatic).      *)
(***************************************************************************)
\* compute_matrix of the family was called with a valid subspace listed as (a, b)
ComputedOn(family) ==
    /\ call.name = "compute_matrix" /\ call.family = family
    /\ call.args[1].tag = "list" /\ call.args[1].v \in ValidPairs

\* the index of {0, 1, 2} that is neither a nor b
Third(a, b) == CHOOSE u \in Trits : u # a /\ u # b

Min(a, b) == IF a < b THEN a ELSE b

Max(a, b) == IF a < b THEN b ELSE a

\* C7: for every valid subspace (a, b), in either listing order, the TX matrix
\* swaps the basis states a and b and maps the third basis state to itself; it
\* is symmetric, unitary and squares to the identity.
C7_TXSwapsSubspace ==
    ComputedOn("TX") =>
        LET a == call.args[1].v[1]
            b == call.args[1].v[2]
            u == Third(a, b)
        IN /\ IsMatrix(result)
           /\ \A r, c \in Idx(3) :
                 result.val[r][c] =
                     IF <<r, c>> \in {<<a, b>>, <<b, a>>, <<u, u>>} THEN One ELSE Zero
           /\ result.val = Transpose(result.val)
           /\ IsUnitary(result.val)
           /\ MatMul(result.val, result.val) = Eye(3)

\* C7 witness: TX.compute_matrix was called with the subspace listed as [2, 0]
C7_Witness ==
    /\ ComputedOn("TX") /\ call.args[1].v = <<2, 0>>
    /\ IsMatrix(result) /\ result.val[0][2] = One /\ result.val[1][1] = One

\* C8: for every valid subspace, with a < b its sorted form, the TY matrix has
\* -i at (a, b), +i at (b, a), 1 at the unused diagonal index and 0 elsewhere,
\* whatever the listing order; it equals its conjugate transpose and squares to
\* the identity.
C8_TYHermitianInvolution ==
    ComputedOn("TY") =>
        LET a == Min(call.args[1].v[1], call.args[1].v[2])
            b == Max(call.args[1].v[1], call.args[1].v[2])
            u == Third(a, b)
        IN /\ IsMatrix(result)
           /\ \A r, c \in Idx(3) :
                 result.val[r][c] =
                     IF <<r, c>> = <<a, b>> THEN Num(-1, 0, 1, 18)
                     ELSE IF <<r, c>> = <<b, a>> THEN Num(1, 0, 1, 18)
                     ELSE IF <<r, c>> = <<u, u>> THEN One
                     ELSE Zero
           /\ Dagger(result.val) = result.val
           /\ MatMul(result.val, result.val) = Eye(3)

\* C8 witness: TY.compute_matrix was called with the subspace listed as [2, 1]
C8_Witness ==
    /\ ComputedOn("TY") /\ call.args[1].v = <<2, 1>>
    /\ IsMatrix(result) /\ result.val[2][1] = Cis(18)

RECURSIVE Prod(_)
Prod(shape) == IF shape = <<>> THEN 1 ELSE Head(shape) * Prod(Tail(shape))

RECURSIVE IndexTuples(_)
\* the index tuples of an array of this shape
IndexTuples(shape) ==
    IF shape = <<>> THEN {<<>>}
    ELSE {<<h>> \o t : h \in 0 .. (Head(shape) - 1), t \in IndexTuples(Tail(shape))}

RECURSIVE Flat(_, _)
\* the row-major (C order) position of idx in an array of this shape
Flat(idx, shape) ==
    IF idx = <<>> THEN 0
    ELSE Head(idx) * Prod(Tail(shape)) + Flat(Tail(idx), Tail(shape))

RECURSIVE Pow3(_)
\* 3 ** k
Pow3(k) == IF k = 0 THEN 1 ELSE 3 * Pow3(k - 1)

\* (3,) * k
Threes(k) == [i \in 1 .. k |-> 3]

\* math.reshape(state, shape) of the 1-D or 2-D parameter: the entries in row-major order
Reshape(state, shape) ==
    [shape |-> shape,
     data |-> [idx \in IndexTuples(shape) |->
                  IF state.ndim = 1 THEN state.rows[1][Flat(idx, shape) + 1]
                  ELSE state.rows[idx[1] + 1][Flat(Tail(idx), Tail(shape)) + 1]]]

\* math.stack([t, math.zeros_like(t)], axis=-1)
StackWithZeros(t) ==
    LET shape == Append(t.shape, 2)
    IN [shape |-> shape,
        data |-> [idx \in IndexTuples(shape) |->
                     IF idx[Len(idx)] = 0 THEN t.data[SubSeq(idx, 1, Len(idx) - 1)] ELSE Zero]]

RECURSIVE StackTimes(_, _)
\* for _ in extra_wires: op_vector = stack([op_vector, zeros_like(op_vector)], axis=-1)
StackTimes(t, n) == IF n = 0 THEN t ELSE StackTimes(StackWithZeros(t), n - 1)

\* math.transpose(t, axes): axis i of the result is axis axes[i] of t (0-based axes)
TransposeAxes(t, axes) ==
    LET shape == [i \in 1 .. Len(axes) |-> t.shape[axes[i] + 1]]
    IN [shape |-> shape,
        data |-> [idx \in IndexTuples(shape) |->
                     t.data[[j \in 1 .. Len(axes) |->
                                idx[CHOOSE i \in 1 .. Len(axes) : axes[i] + 1 = j]]]]]

\* wires.index(w), 0-based
IndexOf(wires, w) == (CHOOSE i \in 1 .. Len(wires) : wires[i] = w) - 1

Range(s) == {s[i] : i \in 1 .. Len(s)}

\* the squared L2 norm of a row of amplitudes: the sum of |x|^2
RECURSIVE NormSquared(_)
NormSquared(row) ==
    IF row = <<>> THEN Zero
    ELSE CAdd(CMul(Head(row), CConj(Head(row))), NormSquared(Tail(row)))

\* self.batch_size: None (0 here) for a 1-D parameter, the number of rows for a 2-D one
BatchSize(self) == IF self.state.ndim = 1 THEN 0 ELSE Len(self.state.rows)

QutritStateVectorInitNoNormCheck(state, wires) ==
    LET self == [family |-> "QutritStateVector", wires |-> wires, state |-> state]
        shape1 == Len(state.rows[1])
    IN IF shape1 # Pow3(Len(wires))
       THEN Raise("ValueError", "State vector must have shape (3**wires,) or (batch_size, 3**wires).")
       ELSE ReturnOp(self)

QutritStateVectorInit(state, wires) ==
    LET self == [family |-> "QutritStateVector", wires |-> wires, state |-> state]
        \* after the reshape of a 1-D state to (1, n), state.shape[1] is the row length
        shape1 == Len(state.rows[1])
    IN IF shape1 # Pow3(Len(wires))
       THEN Raise("ValueError", "State vector must have shape (3**wires,) or (batch_size, 3**wires).")
       ELSE IF \E b \in 1 .. Len(state.rows) : NormSquared(state.rows[b]) # One
       THEN Raise("ValueError", "Sum of amplitudes-squared does not equal one.")
       ELSE ReturnOp(self)

ReturnTensor(t) == [kind |-> "tensor", exc |-> "", val |-> t]

\* self.state_vector(wire_order); extra_wires is the order in which
\* Wires(set(wire_order) - set(self.wires)) lists the set
\* QutritStateVector.state_vector without the check that the wire order
\* contains the wires of the operator
QutritStateVectorStateVectorNoContainsCheck(self, wire_order, extra_wires) ==
    LET num_op_wires == Len(self.wires)
        op_vector_shape ==
            IF BatchSize(self) # 0 THEN <<Len(self.state.rows)>> \o Threes(num_op_wires)
            ELSE Threes(num_op_wires)
        op_vector == Reshape(self.state, op_vector_shape)
    IN IF wire_order = PyNone \/ wire_order.v = self.wires THEN ReturnTensor(op_vector)
       ELSE ReturnTensor(StackTimes(op_vector, Len(extra_wires)))

QutritStateVectorStateVector(self, wire_order, extra_wires) ==
    LET num_op_wires == Len(self.wires)
        op_vector_shape ==
            IF BatchSize(self) # 0 THEN <<Len(self.state.rows)>> \o Threes(num_op_wires)
            ELSE Threes(num_op_wires)
        op_vector == Reshape(self.state, op_vector_shape)
    IN IF wire_order = PyNone \/ wire_order.v = self.wires THEN ReturnTensor(op_vector)
       ELSE IF ~(Range(self.wires) \subseteq Range(wire_order.v))
       THEN Raise("WireError", "Custom wire_order must contain all QutritStateVector wires")
       ELSE LET stacked == StackTimes(op_vector, Len(extra_wires))
                current_wires == self.wires \o extra_wires
                axes == [i \in 1 .. Len(wire_order.v) |-> IndexOf(current_wires, wire_order.v[i])]
                transpose_axes ==
                    IF BatchSize(self) # 0
                    THEN <<0>> \o [i \in 1 .. Len(axes) |-> axes[i] + 1]
                    ELSE axes
            IN ReturnTensor(TransposeAxes(stacked, transpose_axes))

(***************************************************************************)
(* The caller of the state preparation.                                    *)
(***************************************************************************)
SVWireLabels == 0 .. MaxSVWire

\* the duplicate-free wire sequences of length 1..n
SVWireSeqs(n) ==
    {w \in UNION {[1 .. k -> SVWireLabels] : k \in 1 .. n} :
        \A i, j \in 1 .. Len(w) : i # j => w[i] # w[j]}

\* amplitude vectors of length n: a basis state, 3/5 and 4i/5 on two
\* neighbouring positions, and a single amplitude 1/2 (norm 0.5)
OneHot(n, p) == [i \in 1 .. n |-> IF i = p + 1 THEN One ELSE Zero]

TwoAmps(n, p) ==
    [i \in 1 .. n |-> IF i = p + 1 THEN Num(3, 0, 5, 0)
                      ELSE IF i = ((p + 1) % n) + 1 THEN Num(4, 0, 5, 18)
                      ELSE Zero]

HalfNorm(n, p) == [i \in 1 .. n |-> IF i = p + 1 THEN Num(1, 0, 2, 0) ELSE Zero]

\* the lengths 3^k of a state on k wires, and one length that is no power of 3
StateLengths == {Pow3(k) : k \in 1 .. MaxOpWires} \cup {Pow3(MaxOpWires) - 1}

Vector(rows) == [ndim |-> 1, rows |-> <<rows>>]

Batch(r1, r2) == [ndim |-> 2, rows |-> <<r1, r2>>]

StateArgs ==
    UNION {
        {Vector(OneHot(n, p)) : p \in 0 .. (n - 1)} \cup
        {Vector(TwoAmps(n, p)) : p \in 0 .. (n - 1)} \cup
        {Vector(HalfNorm(n, p)) : p \in {0}} \cup
        {Batch(OneHot(n, p), TwoAmps(n, p)) : p \in 0 .. (n - 1)} \cup
        {Batch(OneHot(n, p), HalfNorm(n, p)) : p \in {0}}
        : n \in StateLengths}

WireOrderArgs == {PyList(w) : w \in SVWireSeqs(MaxSVWire + 1)} \cup {PyNone}

\* the orders in which a set of wires can be listed
Listings(S) == {w \in [1 .. Cardinality(S) -> S] : Range(w) = S}

\* x = QutritStateVector(state, wires)
ConstructSV ==
    /\ call = NoCall
    /\ \E state \in StateArgs :
       \E wires \in SVWireSeqs(MaxOpWires) :
          LET out == QutritStateVectorInit(state, wires)
          IN /\ call' = Call("__init__", "QutritStateVector", <<wires, state>>)
             /\ result' = out
             /\ op' = IF out.kind = "op" THEN out.val ELSE op
    /\ UNCHANGED heap

\* x.state_vector(wire_order)
CallStateVector ==
    /\ op.family = "QutritStateVector"
    /\ \E wire_order \in WireOrderArgs :
       \E extra_wires \in Listings(IF wire_order = PyNone THEN {}
                                   ELSE Range(wire_order.v) \ Range(op.wires)) :
          /\ call' = Call("state_vector", op.family, <<wire_order>>)
          /\ result' = QutritStateVectorStateVector(op, wire_order, extra_wires)
    /\ UNCHANGED <<op, heap>>

NextSV ==
    \/ ConstructSV
    \/ CallStateVector
    \/ Discard

SpecSV == Init /\ [][NextSV]_vars

(***************************************************************************)
(* Claims on the state preparation (specification SpecSV).                 *)
(***************************************************************************)
\* state_vector was called with a wire order that holds every wire of the
\* operator and at least one more
ProjectedOnSuperset ==
    /\ call.name = "state_vector"
    /\ call.args[1] # PyNone
    /\ Range(op.wires) \subseteq Range(call.args[1].v)
    /\ Range(op.wires) # Range(call.args[1].v)

\* C3: a QutritStateVector on k wires projected onto a wire order of m > k
\* wires that holds all its wires gives a tensor with a size-3 axis for every
\* wire (the batch axis first when batched), the axes in the requested order:
\* an entry whose index on every added wire is 0 is the original amplitude at
\* the operator-wire indices, and every other entry is 0.
C3_SupersetProjection ==
    ProjectedOnSuperset =>
        LET order == call.args[1].v
            k == Len(op.wires)
            batched == BatchSize(op) # 0
            prefix == IF batched THEN <<BatchSize(op)>> ELSE <<>>
            shape == prefix \o Threes(Len(order))
        IN /\ result.kind = "tensor"
           /\ result.val.shape = shape
           /\ \A idx \in IndexTuples(shape) :
                 LET didx == IF batched THEN Tail(idx) ELSE idx
                     row == IF batched THEN idx[1] + 1 ELSE 1
                     src == [j \in 1 .. k |-> didx[IndexOf(order, op.wires[j]) + 1]]
                     added_zero ==
                         \A i \in 1 .. Len(order) :
                             order[i] \notin Range(op.wires) => didx[i] = 0
                 IN result.val.data[idx] =
                        IF added_zero THEN op.state.rows[row][Flat(src, Threes(k)) + 1]
                        ELSE Zero

(***************************************************************************)
(* Claims on the two-qutrit generators (specification SpecStatic).         *)
(***************************************************************************)
\* the control value TCNOT.compute_matrix was called with, 2 when none was given
ControlGiven == IF call.args[2] = Omitted THEN 2 ELSE call.args[2].v[1]

\* C11: for every valid subspace (a, b) and control value c in {0, 1, 2}, the
\* TCNOT matrix is 9x9 block diagonal with the TX matrix of the subspace as
\* block c and the identity as the other two blocks: it maps (c, a) to (c, b),
\* (c, b) to (c, a) and every other basis state (i, j) to itself; with no
\* control value given the control value is 2.
C11_TCNOTBlockOfControl ==
    (ComputedOn("TCNOT") /\ ControlGiven \in Trits) =>
        LET a == call.args[1].v[1]
            b == call.args[1].v[2]
            c == ControlGiven
            tx == TXComputeMatrix(call.args[1])
            Image(i, j) == IF i = c /\ j = a THEN <<c, b>>
                           ELSE IF i = c /\ j = b THEN <<c, a>>
                           ELSE <<i, j>>
        IN /\ IsMatrix(result)
           /\ Dim(result.val) = 9
           /\ \A k, r, s \in Trits :
                 result.val[3 * k + r][3 * k + s] =
                     IF k = c THEN tx.val[r][s] ELSE IF r = s THEN One ELSE Zero
           /\ \A k, l, r, s \in Trits : k # l => result.val[3 * k + r][3 * l + s] = Zero
           /\ \A i, j, k, l \in Trits :
                 result.val[3 * k + l][3 * i + j] =
                     IF <<k, l>> = Image(i, j) THEN One ELSE Zero
           /\ call.args[2] = Omitted => result = TCNOTComputeMatrix(call.args[1], PyInt(2))

\* C11 witness: TCNOT.compute_matrix on the subspace [2, 0] with control value 1
\* maps (1, 0), index 3, to (1, 2), index 5
C11_Witness ==
    /\ ComputedOn("TCNOT") /\ call.args[1].v = <<2, 0>> /\ call.args[2] = PyInt(1)
    /\ IsMatrix(result) /\ result.val[5][3] = One /\ result.val[8][8] = One

\* C12: the TAdd matrix is the 9x9 permutation matrix that maps every basis
\* state (i, j), index 3*i + j, to (i, (i + j) mod 3): the first register is
\* never changed and, with the first register 0, the second is unchanged.
C12_TAddShiftsSecondByFirst ==
    (call.name = "compute_matrix" /\ call.family = "TAdd") =>
        /\ IsMatrix(result)
        /\ Dim(result.val) = 9
        /\ \A i, j, k, l \in Trits :
              result.val[3 * k + l][3 * i + j] =
                  IF k = i /\ l = (i + j) % 3 THEN One ELSE Zero
        /\ \A j \in Trits : result.val[j][j] = One
        /\ IsUnitary(result.val)

\* C12 witness: TAdd.compute_matrix maps (1, 2), index 5, to (1, 0), index 3
C12_Witness ==
    /\ call.name = "compute_matrix" /\ call.family = "TAdd"
    /\ IsMatrix(result) /\ result.val[3][5] = One /\ result.val[8][6] = One

\* C14: the TShift matrix is the 3x3 cyclic permutation matrix that sends basis
\* index i to (i + 1) mod 3; its cube is the identity, and neither the matrix
\* nor its square is the identity.
C14_TShiftCyclic ==
    (call.name = "compute_matrix" /\ call.family = "TShift") =>
        /\ IsMatrix(result)
        /\ Dim(result.val) = 3
        /\ \A i, k \in Trits :
              result.val[k][i] = IF k = (i + 1) % 3 THEN One ELSE Zero
        /\ MatPowNat(result.val, 3) = Eye(3)
        /\ result.val # Eye(3)
        /\ MatPowNat(result.val, 2) # Eye(3)

\* C14 witness: TShift.compute_matrix maps index 2 to index 0
C14_Witness ==
    /\ call.name = "compute_matrix" /\ call.family = "TShift"
    /\ IsMatrix(result) /\ result.val[0][2] = One /\ result.val[1][0] = One

(***************************************************************************)
(* Further claims on the operator objects (specification Spec).            *)
(***************************************************************************)
\* C13: the TSWAP matrix is the 9x9 permutation matrix that maps every basis
\* state (i, j), index 3*i + j, to (j, i); it is its own adjoint and its own
\* inverse, and adjoint() returns a TSWAP operator on the same wires in the
\* same order, equal to the original.
C13_TSWAPSelfAdjoint ==
    /\ (call.name = "matrix" /\ op.family = "TSWAP") =>
          /\ IsMatrix(result)
          /\ Dim(result.val) = 9
          /\ \A i, j, k, l \in Trits :
                result.val[3 * k + l][3 * i + j] = IF k = j /\ l = i THEN One ELSE Zero
          /\ Dagger(result.val) = result.val
          /\ MatMul(result.val, result.val) = Eye(9)
    /\ (call.name = "adjoint" /\ op.family = "TSWAP") =>
          /\ result.kind = "op"
          /\ result.val.family = "TSWAP"
          /\ result.val.wires = op.wires
          /\ result.val = op
          /\ MatrixOf(result.val) = ReturnMatrix(Dagger(MatrixOf(op).val))

\* C13 witness: adjoint() of a TSWAP on the wires (1, 0) returned a TSWAP on (1, 0)
C13_Witness ==
    /\ call.name = "adjoint" /\ op.family = "TSWAP" /\ op.wires = <<1, 0>>
    /\ result.kind = "op" /\ result.val.wires = <<1, 0>>

(***************************************************************************)
(* Claims on the eigenvalue arrays (specification SpecStatic).  Sums of    *)
(* numbers n * e^(i*k*pi/3) are taken exactly as x + y * OMEGA with        *)
(* integers x and y.                                                       *)
(***************************************************************************)
NoEis == [x |-> 0, y |-> 0, ok |-> FALSE]

\* z as x + y * OMEGA, for z an integer multiple of 1, of 1 + OMEGA or of OMEGA
Eis(z) ==
    IF z = Zero THEN [x |-> 0, y |-> 0, ok |-> TRUE]
    ELSE IF ~IsDef(z) \/ z.b # 0 \/ z.d # 1 THEN NoEis
    ELSE IF z.ph = 0 THEN [x |-> z.a, y |-> 0, ok |-> TRUE]
    ELSE IF z.ph = TurnUnits \div 6 THEN [x |-> z.a, y |-> z.a, ok |-> TRUE]
    ELSE IF z.ph = TurnUnits \div 3 THEN [x |-> 0, y |-> z.a, ok |-> TRUE]
    ELSE NoEis

EisAdd(p, q) == [x |-> p.x + q.x, y |-> p.y + q.y, ok |-> p.ok /\ q.ok]

RECURSIVE PowerSum(_, _)
\* vals[1]^k + ... + vals[n]^k
PowerSum(vals, k) ==
    IF vals = <<>> THEN Eis(Zero)
    ELSE EisAdd(Eis(CPow(Head(vals), k)), PowerSum(Tail(vals), k))

RECURSIVE TraceTo(_, _)
\* A[0][0] + ... + A[n][n]
TraceTo(A, n) == IF n = 0 THEN Eis(A[0][0]) ELSE EisAdd(TraceTo(A, n - 1), Eis(A[n][n]))

Trace(A) == TraceTo(A, Dim(A) - 1)

RECURSIVE SameSpectrumFrom(_, _, _, _)
\* the k-th power sums of vals are the traces of A^k, for k from k to Dim(A),
\* P being A^k; by Newton's identities this makes vals the eigenvalues of A
\* with their multiplicities
SameSpectrumFrom(vals, A, P, k) ==
    /\ PowerSum(vals, k).ok
    /\ PowerSum(vals, k) = Trace(P)
    /\ k < Dim(A) => SameSpectrumFrom(vals, A, MatMul(P, A), k + 1)

\* the number of entries of vals equal to v
Count(vals, v) == Cardinality({i \in DOMAIN vals : vals[i] = v})

\* C15: for TShift, TClock, TAdd and TSWAP the values compute_eigvals returns
\* are, as a multiset, the eigenvalues of the matrix compute_matrix returns:
\* {1, w, w^2} for TShift, the diagonal (1, w, w^2) for TClock, five 1, two w
\* and two w^2 for TAdd, six +1 and three -1 for TSWAP (w = OMEGA).
C15_EigvalsOfMatrix ==
    call.name = "compute_eigvals" =>
        LET vals == result.val
            m == StaticMatrix(call.family, Omitted, Omitted)
            w == Cis(TurnUnits \div 3)
            w2 == Cis(2 * (TurnUnits \div 3))
        IN /\ result.kind = "array"
           /\ IsMatrix(m)
           /\ Len(vals) = Dim(m.val)
           /\ SameSpectrumFrom(vals, m.val, m.val, 1)
           /\ call.family = "TShift" =>
                 Count(vals, One) = 1 /\ Count(vals, w) = 1 /\ Count(vals, w2) = 1
           /\ call.family = "TClock" =>
                 /\ vals = <<One, w, w2>>
                 /\ \A i \in 1 .. 3 : vals[i] = m.val[i - 1][i - 1]
           /\ call.family = "TAdd" =>
                 Count(vals, One) = 5 /\ Count(vals, w) = 2 /\ Count(vals, w2) = 2
           /\ call.family = "TSWAP" =>
                 Count(vals, One) = 6 /\ Count(vals, Real(-1)) = 3

\* C15 witness: TAdd.compute_eigvals returned nine values, the first of them w
C15_Witness ==
    /\ call.name = "compute_eigvals" /\ call.family = "TAdd"
    /\ result.kind = "array" /\ Len(result.val) = 9
    /\ result.val[1] = Cis(TurnUnits \div 3)

(***************************************************************************)
(* Claims on the validation of the subspace (specification SpecStatic).    *)
(***************************************************************************)
\* the outcome r reports the first check that x fails, in the order
\* iterability, length 2, membership in {0, 1, 2}, distinctness, and is a
\* matrix only when x passes all four
FirstFailingCheck(x, r) ==
    IF ~HasIter(x) THEN r.kind = "raise"
    ELSE IF Len(x.v) # 2 THEN r = Raise("ValueError", MsgSequence)
    ELSE IF \E k \in 1 .. 2 : x.v[k] \notin {0, 1, 2} THEN r = Raise("ValueError", MsgRange)
    ELSE IF x.v[1] = x.v[2] THEN r = Raise("ValueError", MsgUnique)
    ELSE IsMatrix(r)

\* C16: every subspace-parametrized matrix generator checks the subspace it is
\* given in the order iterability, length equal to 2, membership in {0, 1, 2},
\* distinctness, and reports the first failing check; a failure raises and no
\* matrix is returned.
C16_ValidationOrder ==
    (call.name = "compute_matrix" /\ call.family \in SubspaceFamilies
        /\ call.args[1] \notin {Omitted, PyNone}) =>
        FirstFailingCheck(call.args[1], result)

(***************************************************************************)
(* Claims on adjoint and control_wires (specification Spec).               *)
(***************************************************************************)
\* C17: for TSWAP, TX, TY, TZ, TH and TCNOT, adjoint() leaves the operator
\* unchanged and returns a new operator of the same family with the same wires
\* in the same order, the same subspace as the original reports (for TZ in the
\* listing order) and, for TCNOT, the same control value; the matrix of the
\* returned operator is the conjugate transpose of the original's matrix.
C17_AdjointSameParameters ==
    [][(call'.name = "adjoint" /\ op.family \in {"TSWAP", "TX", "TY", "TZ", "TH", "TCNOT"}) =>
          (LET adj == result'.val
           IN /\ op' = op
              /\ result'.kind = "op"
              /\ adj.family = op.family
              /\ adj.wires = op.wires
              /\ op.family # "TSWAP" =>
                    /\ SubspaceOf(adj) = SubspaceOf(op)
                    /\ adj.hyper.subspace = op.hyper.subspace
              /\ op.family = "TCNOT" =>
                    /\ TCNOTControlValue(adj) = TCNOTControlValue(op)
                    /\ adj.hyper.control_value = op.hyper.control_value
              /\ IsMatrix(MatrixOf(op)) =>
                    MatrixOf(adj) = ReturnMatrix(Dagger(MatrixOf(op).val)))]_vars

\* C17 witness: adjoint() of a TCNOT with the subspace listed as [2, 1] and the
\* control value 0 returned a TCNOT with the control value 0
C17_Witness ==
    /\ call.name = "adjoint" /\ op.family = "TCNOT"
    /\ op._subspace = PyList(<<2, 1>>) /\ op._control_value = PyInt(0)
    /\ result.kind = "op" /\ result.val.hyper.control_value = PyInt(0)
    /\ result.val.hyper.subspace = PyTuple(<<1, 2>>)

\* C18: the adjoint of a phase gate TS or TT, whatever subspace it was built
\* with, fails with AdjointUndefinedError and returns no operator.
C18_PhaseGateAdjointUndefined ==
    (call.name = "adjoint" /\ op.family \in {"TS", "TT"}) =>
        /\ result.kind = "raise"
        /\ result.exc = "AdjointUndefinedError"

\* C18 witness: adjoint() was called on a TT built with the subspace [0, 2]
C18_Witness ==
    /\ call.name = "adjoint" /\ op.family = "TT" /\ op._subspace = PyList(<<0, 2>>)
    /\ result.kind = "raise" /\ result.exc = "AdjointUndefinedError"

\* C19: control_wires of the controlled gates TAdd and TCNOT is exactly the
\* first wire of the operator's wire sequence, whatever the wire labels, the
\* subspace and the control value.
C19_ControlIsFirstWire ==
    call.name = "control_wires" =>
        /\ op.family \in {"TAdd", "TCNOT"}
        /\ result.kind = "value"
        /\ result.val.tag = "Wires"
        /\ result.val.v = <<Head(op.wires)>>

\* C19 witness: control_wires of a TCNOT on the wires (1, 0) with the control
\* value 0 is the wire 1
C19_Witness ==
    /\ call.name = "control_wires" /\ op.family = "TCNOT"
    /\ op.wires = <<1, 0>> /\ op._control_value = PyInt(0)
    /\ result.val.v = <<1>>

(***************************************************************************)
(* state_preparation.py: QutritBasisState.  The class defines no __init__: *)
(* the object holds its parameter n (the trits) and its wires.             *)
(***************************************************************************)
QutritBasisStateInit(n, wires) ==
    ReturnOp([family |-> "QutritBasisState", wires |-> wires, n |-> n])

RECURSIVE AssignTrits(_, _, _, _)
\* for base_wire_label, value in zip(self.wires, prep_vals):
\*     indices[wire_order.index(base_wire_label)] = value
AssignTrits(indices, wires, prep_vals, wire_order) ==
    IF wires = <<>> \/ prep_vals = <<>> THEN indices
    ELSE AssignTrits([indices EXCEPT ![IndexOf(wire_order, Head(wires)) + 1] = Head(prep_vals)],
                     Tail(wires), Tail(prep_vals), wire_order)

\* ket = np.zeros((3,) * num_wires); ket[tuple(indices)] = 1
Ket(num_wires, indices) ==
    [shape |-> Threes(num_wires),
     data |-> [idx \in IndexTuples(Threes(num_wires)) |-> IF idx = indices THEN One ELSE Zero]]

\* QutritBasisState.state_vector placing the trits in the operator's own wire
\* order, whatever the wire order asked for
QutritBasisStateStateVectorOwnOrder(self, wire_order) ==
    LET prep_vals == self.n
    IN IF \E i \in 1 .. Len(prep_vals) : prep_vals[i] \notin {0, 1, 2}
       THEN Raise("ValueError", "QutritBasisState parameter must consist of 0, 1 or 2 integers.")
       ELSE IF Len(self.wires) # Len(prep_vals)
       THEN Raise("ValueError", "QutritBasisState parameter and wires must be of equal length.")
       ELSE IF wire_order = PyNone THEN ReturnTensor(Ket(Len(self.wires), prep_vals))
       ELSE IF ~(Range(self.wires) \subseteq Range(wire_order.v))
       THEN Raise("WireError", "Custom wire_order must contain all QutritBasisState wires")
       ELSE LET num_wires == Len(wire_order.v)
                indices == [i \in 1 .. num_wires |->
                               IF i <= Len(prep_vals) THEN prep_vals[i] ELSE 0]
            IN ReturnTensor(Ket(num_wires, indices))

\* QutritBasisState.state_vector without the check of len(self.wires) against
\* len(prep_vals)
QutritBasisStateStateVectorNoLengthCheck(self, wire_order) ==
    LET prep_vals == self.n
    IN IF \E i \in 1 .. Len(prep_vals) : prep_vals[i] \notin {0, 1, 2}
       THEN Raise("ValueError", "QutritBasisState parameter must consist of 0, 1 or 2 integers.")
       ELSE IF wire_order = PyNone THEN ReturnTensor(Ket(Len(self.wires), prep_vals))
       ELSE IF ~(Range(self.wires) \subseteq Range(wire_order.v))
       THEN Raise("WireError", "Custom wire_order must contain all QutritBasisState wires")
       ELSE LET num_wires == Len(wire_order.v)
                indices == AssignTrits([i \in 1 .. num_wires |-> 0],
                                       self.wires, prep_vals, wire_order.v)
            IN ReturnTensor(Ket(num_wires, indices))

\* self.state_vector(wire_order)
QutritBasisStateStateVector(self, wire_order) ==
    LET prep_vals == self.n
    IN IF \E i \in 1 .. Len(prep_vals) : prep_vals[i] \notin {0, 1, 2}
       THEN Raise("ValueError", "QutritBasisState parameter must consist of 0, 1 or 2 integers.")
       ELSE IF Len(self.wires) # Len(prep_vals)
       THEN Raise("ValueError", "QutritBasisState parameter and wires must be of equal length.")
       ELSE IF wire_order = PyNone THEN ReturnTensor(Ket(Len(self.wires), prep_vals))
       ELSE IF ~(Range(self.wires) \subseteq Range(wire_order.v))
       THEN Raise("WireError", "Custom wire_order must contain all QutritBasisState wires")
       ELSE LET num_wires == Len(wire_order.v)
                indices == AssignTrits([i \in 1 .. num_wires |-> 0],
                                       self.wires, prep_vals, wire_order.v)
            IN ReturnTensor(Ket(num_wires, indices))

\* what a caller passes as n for these wires: every sequence of trits of the
\* length of the wires, sequences holding a value that is no trit, and
\* sequences one shorter or one longer than the wires
BasisStateArgs(wires) ==
    [1 .. Len(wires) -> Trits] \cup
    [1 .. Len(wires) -> {0, MaxElem}] \cup
    {[i \in 1 .. (Len(wires) - 1) |-> 1],
     [i \in 1 .. (Len(wires) + 1) |-> 2],
     [i \in 1 .. (Len(wires) + 1) |-> IF i = 1 THEN MaxElem ELSE 0]}

\* x = QutritBasisState(n, wires)
ConstructBS ==
    /\ call = NoCall
    /\ \E wires \in SVWireSeqs(MaxOpWires) :
       \E n \in BasisStateArgs(wires) :
          LET out == QutritBasisStateInit(n, wires)
          IN /\ call' = Call("__init__", "QutritBasisState", <<wires, n>>)
             /\ result' = out
             /\ op' = out.val
    /\ UNCHANGED heap

\* x.state_vector(wire_order), called on the object just built: the method
\* only reads the object, so a later call on it returns what a first call does
CallBasisStateVector ==
    /\ op.family = "QutritBasisState"
    /\ call.name = "__init__"
    /\ \E wire_order \in WireOrderArgs :
          /\ call' = Call("state_vector", op.family, <<wire_order>>)
          /\ result' = QutritBasisStateStateVector(op, wire_order)
    /\ UNCHANGED <<op, heap>>

NextBS ==
    \/ ConstructBS
    \/ CallBasisStateVector
    \/ Discard

SpecBS == Init /\ [][NextBS]_vars

(***************************************************************************)
(* Claims on the basis state preparation (specification SpecBS).           *)
(***************************************************************************)
\* C20: for a QutritBasisState with trits n on k wires and a wire order of m
\* wires holding all of them (or none given: the operator's own order),
\* state_vector returns a tensor of shape (3,)^m with exactly one entry 1 and
\* all others 0; the index of the 1 has the trit of each operator wire at the
\* position of that wire in the order, and 0 at the position of every other
\* wire.  With the trits [2, 2] and no order the flattened index of the 1 is 8.
C20_BasisStateOneHot ==
    (/\ call.name = "state_vector"
     /\ op.family = "QutritBasisState"
     /\ \A i \in 1 .. Len(op.n) : op.n[i] \in {0, 1, 2}
     /\ Len(op.n) = Len(op.wires)
     /\ call.args[1] # PyNone => Range(op.wires) \subseteq Range(call.args[1].v)) =>
        LET order == IF call.args[1] = PyNone THEN op.wires ELSE call.args[1].v
            m == Len(order)
            shape == [i \in 1 .. m |-> 3]
            hot == [p \in 1 .. m |->
                       IF order[p] \in Range(op.wires)
                       THEN op.n[CHOOSE j \in 1 .. Len(op.wires) : op.wires[j] = order[p]]
                       ELSE 0]
        IN /\ result.kind = "tensor"
           /\ result.val.shape = shape
           /\ DOMAIN result.val.data = IndexTuples(shape)
           /\ Cardinality({idx \in IndexTuples(shape) : result.val.data[idx] = One}) = 1
           /\ \A idx \in IndexTuples(shape) :
                 result.val.data[idx] = IF idx = hot THEN One ELSE Zero
           /\ (op.n = <<2, 2>> /\ call.args[1] = PyNone) =>
                 \A idx \in IndexTuples(shape) :
                    result.val.data[idx] = One <=> Flat(idx, shape) = 8

\* C20 witness: the trits [2, 1] on the wires (1, 0) projected onto the wire
\* order (0, 2, 1) have their 1 at the index (1, 0, 2)
C20_Witness ==
    /\ call.name = "state_vector" /\ op.family = "QutritBasisState"
    /\ op.n = <<2, 1>> /\ op.wires = <<1, 0>>
    /\ call.args[1] = PyList(<<0, 2, 1>>)
    /\ result.kind = "tensor" /\ result.val.data[<<1, 0, 2>>] = One

\* C21: QutritBasisState.state_vector returns no tensor and fails with a
\* ValueError when a trit is outside {0, 1, 2} or when the number of trits
\* differs from the number of wires, and (the parameter being valid) fails with
\* a WireError when the wire order asked for omits a wire of the operator.
C21_BasisStateRejects ==
    (call.name = "state_vector" /\ op.family = "QutritBasisState") =>
        LET bad_trit == \E i \in 1 .. Len(op.n) : op.n[i] \notin {0, 1, 2}
            bad_length == Len(op.n) # Len(op.wires)
            omits == /\ call.args[1] # PyNone
                     /\ \E j \in 1 .. Len(op.wires) :
                           \A p \in 1 .. Len(call.args[1].v) : call.args[1].v[p] # op.wires[j]
        IN /\ (bad_trit \/ bad_length) =>
                 (result.kind = "raise" /\ result.exc = "ValueError")
           /\ (~bad_trit /\ ~bad_length /\ omits) =>
                 (result.kind = "raise" /\ result.exc = "WireError")
           /\ result.kind = "tensor" => (~bad_trit /\ ~bad_length /\ ~omits)

\* C21 witness: the trits [1, 2] on the wires (0, 1) asked for in the wire
\* order (1, 2), which omits the wire 0
C21_Witness ==
    /\ call.name = "state_vector" /\ op.family = "QutritBasisState"
    /\ op.n = <<1, 2>> /\ op.wires = <<0, 1>>
    /\ call.args[1] = PyList(<<1, 2>>)
    /\ result.kind = "raise" /\ result.exc = "WireError"

C23_OwnOrderAndMissingWire ==
    (call.name = "state_vector" /\ op.family = "QutritStateVector" /\ call.args[1] # PyNone) =>
        LET wire_order == call.args[1].v
            missing == \E j \in 1 .. Len(op.wires) :
                          \A p \in 1 .. Len(wire_order) : wire_order[p] # op.wires[j]
        IN /\ wire_order = op.wires =>
                 /\ result.kind = "tensor"
                 /\ result = QutritStateVectorStateVector(op, PyNone, <<>>)
                 /\ result.val.shape =
                       (IF op.state.ndim = 1 THEN <<>> ELSE <<Len(op.state.rows)>>)
                       \o [i \in 1 .. Len(op.wires) |-> 3]
           /\ missing => (result.kind = "raise" /\ result.exc = "WireError")

\* C23 witness: a state on the wires (1, 0) asked for in the order (1, 0)
C23_Witness ==
    /\ call.name = "state_vector" /\ op.family = "QutritStateVector"
    /\ op.wires = <<1, 0>>
    /\ call.args[1] = PyList(<<1, 0>>)
    /\ result.kind = "tensor"

\* C26: TCNOT does not validate its control value.  With an integer control
\* value that is neither 0 nor 1, values outside {0, 1, 2} included, the
\* constructor raises nothing that it does not raise with control value 2, and
\* the matrix is the one of control value 2: for a valid subspace the TX matrix
\* of the subspace as the third 3x3 block and the identity elsewhere.
C26_ControlValueNotValidated ==
    /\ (/\ call.name = "__init__" /\ call.family = "TCNOT"
        /\ call.args[3] # Omitted /\ call.args[3].v[1] \notin {0, 1}) =>
           /\ result.kind = TCNOTInit(call.args[1], call.args[2], PyInt(2)).kind
           /\ (call.args[2] = Omitted \/ HasIter(call.args[2])) =>
                 /\ result.kind = "op"
                 /\ op._control_value = call.args[3]
                 /\ op.hyper.control_value = call.args[3]
    /\ (/\ call.name = "matrix" /\ op.family = "TCNOT"
        /\ op.hyper.control_value.v[1] \notin {0, 1}) =>
           LET tx == TXComputeMatrix(op.hyper.subspace)
           IN /\ result = TCNOTComputeMatrix(op.hyper.subspace, PyInt(2))
              /\ result.kind = tx.kind
              /\ IsMatrix(tx) =>
                    /\ Dim(result.val) = 9
                    /\ \A r, c \in Idx(9) :
                          result.val[r][c] =
                              IF r >= 6 /\ c >= 6 THEN tx.val[r - 6][c - 6]
                              ELSE IF r = c THEN One ELSE Zero

\* C26 witness: the matrix of a TCNOT built on the subspace [0, 2] with control
\* value 3 swaps (2, 0), index 6, and (2, 2), index 8
C26_Witness ==
    /\ call.name = "matrix" /\ op.family = "TCNOT"
    /\ op._subspace = PyList(<<0, 2>>)
    /\ op._control_value = PyInt(MaxControl)
    /\ IsMatrix(result) /\ result.val[8][6] = One /\ result.val[6][8] = One

(***************************************************************************)
(* The caller that keeps the list it passes as subspace.  __init__ binds   *)
(* self._subspace to the very list object (self._subspace = subspace), so  *)
(* op._subspace and heap.passed are one object: what changes one changes   *)
(* the other.  The hyperparameters hold the tuple that the property        *)
(* subspace built during __init__.                                         *)
(***************************************************************************)
\* lst.sort() in the place of sorted(lst): the list itself is put in order
PySortedInPlace(lst) == [value |-> Sorted(lst), arg |-> Sorted(lst)]

\* sorted(lst): a new list in ascending order (value); the list given keeps
\* its elements and their order (arg)
PySorted(lst) == [value |-> Sorted(lst), arg |-> lst]

\* the families whose subspace parameter has the default [0, 1]
DefaultingFamilies == {"TCNOT", "TX", "TY", "TZ", "TH"}

\* the list bound to self._subspace, after the property subspace has read it:
\* tuple(sorted(self._subspace)), and tuple(self._subspace) in TZ
ListAfterSubspace(family, lst) ==
    IF family = "TZ" THEN lst ELSE PySorted(lst).arg

\* the list bound to the parameter subspace of Family.compute_matrix, after the
\* call: TX, TY and TH (and TCNOT through TX) reach
\* subspace = tuple(sorted(subspace)) once the three checks have passed
ListAfterComputeMatrix(family, lst, out) ==
    IF family \in {"TCNOT", "TX", "TY", "TH"} /\ out.kind = "matrix"
    THEN PySorted(lst).arg
    ELSE lst

\* the lists of two elements that the caller builds and keeps
CallerLists == {PyList(s) : s \in [1 .. 2 -> Elems]}

\* the object that the parameter subspace is bound to
BoundSubspace(family, subspace_arg) ==
    IF subspace_arg = Omitted /\ family \in DefaultingFamilies
    THEN PyList(heap.default)
    ELSE subspace_arg

\* the heap once the list bound to the parameter subspace holds lst
HeapWith(subspace_arg, lst) ==
    IF subspace_arg = Omitted
    THEN [heap EXCEPT !.default = lst]
    ELSE [heap EXCEPT !.passed = PyList(lst)]

\* lst = [a, b]; x = Family(wires, subspace=lst), or x = Family(wires)
ConstructWithList ==
    /\ call = NoCall
    /\ \E family \in SubspaceFamilies :
       \E wires \in WireSeqs(NumWires(family)) :
       \E subspace_arg \in CallerLists \cup {Omitted} :
          LET bound == BoundSubspace(family, subspace_arg)
              out == InitOp(family, wires, bound, Omitted)
          IN /\ call' = Call("__init__", family, <<wires, subspace_arg, Omitted>>)
             /\ IF out.kind = "op"
                THEN LET lst == ListAfterSubspace(family, bound.v)
                         self == [out.val EXCEPT !._subspace = PyList(lst)]
                     IN /\ result' = ReturnOp(self)
                        /\ op' = self
                        \* the caller holds the list it passed, if it passed one
                        /\ heap' = [HeapWith(subspace_arg, lst) EXCEPT
                                       !.passed = IF subspace_arg = Omitted THEN NoAttr ELSE @]
                ELSE /\ result' = out
                     /\ op' = op
                     /\ heap' = [heap EXCEPT !.passed = NoAttr]

\* lst[0] = v, by the caller, on the list it passed to the constructor
SetItemOfList ==
    /\ op.family \in SubspaceFamilies
    /\ heap.passed # NoAttr
    /\ \E v \in Elems :
          LET lst == [heap.passed.v EXCEPT ![1] = v]
          IN /\ heap' = [heap EXCEPT !.passed = PyList(lst)]
             /\ op' = [op EXCEPT !._subspace = PyList(lst)]
             /\ call' = Call("setitem", op.family, <<PyInt(0), PyInt(v)>>)
             /\ result' = NoResult

\* Family.compute_matrix(subspace=lst) on the list the caller holds, or
\* Family.compute_matrix()
ComputeMatrixOnList ==
    /\ op.family \in SubspaceFamilies
    /\ \E subspace_arg \in {heap.passed, Omitted} \ {NoAttr} :
          LET bound == BoundSubspace(op.family, subspace_arg)
              out == StaticMatrix(op.family, bound, Omitted)
              lst == IF HasLen(bound) THEN ListAfterComputeMatrix(op.family, bound.v, out)
                     ELSE <<>>
          IN /\ call' = Call("compute_matrix", op.family, <<subspace_arg, Omitted>>)
             /\ result' = out
             /\ heap' = IF HasLen(bound) THEN HeapWith(subspace_arg, lst) ELSE heap
             /\ op' = IF subspace_arg = Omitted THEN op
                      ELSE [op EXCEPT !._subspace = PyList(lst)]

NextAlias ==
    \/ ConstructWithList
    \/ SetItemOfList
    \/ ComputeMatrixOnList
    \/ CallMatrix
    \/ CallSubspace
    \/ CallAdjoint
    \/ CallPow
    \/ Discard

SpecAlias == Init /\ [][NextAlias]_vars

\* C24: an operator that takes a subspace does not change once built, whatever
\* happens to the list its caller passed: its subspace property equals the
\* subspace of its hyperparameters, from which its matrix is computed, and the
\* operator returned by adjoint() has that same subspace.
C24_SubspaceFixedAtConstruction ==
    /\ op.family \in SubspaceFamilies => SubspaceOf(op) = op.hyper.subspace
    /\ (call.name = "adjoint" /\ op.family \in SubspaceFamilies /\ result.kind = "op") =>
          SubspaceOf(result.val) = op.hyper.subspace

\* C24, the state that refutes it: a TX built on lst = [0, 1], after lst[0] = 2,
\* returns from adjoint() an operator on the subspace (1, 2) while its own
\* matrix is computed from the subspace (0, 1)
C24_Diverged ==
    /\ call.name = "adjoint" /\ op.family = "TX" /\ result.kind = "op"
    /\ op.hyper.subspace = PyTuple(<<0, 1>>)
    /\ heap.passed = PyList(<<2, 1>>)
    /\ result.val.hyper.subspace = PyTuple(<<1, 2>>)
    /\ MatrixOf(result.val) # MatrixOf(op)

\* C25: no constructor, compute_matrix, matrix, subspace, adjoint or pow call
\* on TX, TY, TZ, TH and TCNOT changes the default subspace list or the list
\* the caller passed: after each such call the default is [0, 1], the caller's
\* list holds what it held before the call (after the constructor, what the
\* caller passed), and an operator built without a subspace reports (0, 1).
C25_ListsLeftAlone ==
    [][(/\ call'.family \in DefaultingFamilies
        /\ call'.name \in {"__init__", "compute_matrix", "matrix", "subspace", "adjoint", "pow"}) =>
           /\ heap'.default = <<0, 1>>
           /\ heap'.passed = IF call'.name # "__init__" THEN heap.passed
                             ELSE IF call'.args[2] = Omitted THEN NoAttr
                             ELSE call'.args[2]
           /\ (call'.name = "__init__" /\ call'.args[2] = Omitted) =>
                 /\ result'.kind = "op"
                 /\ SubspaceOf(op') = PyTuple(<<0, 1>>)
           /\ (call'.name = "subspace" /\ heap'.passed = NoAttr) =>
                 result' = ReturnValue(PyTuple(<<0, 1>>))]_vars

\* C25 witness: TX.compute_matrix(subspace=lst) has returned a matrix and the
\* caller's list lst is still [2, 0], the default still [0, 1]
C25_Witness ==
    /\ call.name = "compute_matrix" /\ call.family = "TX"
    /\ call.args[1] = PyList(<<2, 0>>)
    /\ IsMatrix(result)
    /\ heap.passed = PyList(<<2, 0>>)
    /\ heap.default = <<0, 1>>

====
